---- MODULE Spec2Model ----
(***************************************************************************)
(* Model of Part-II/04_melt_pond/tutorial_helper_functions.py:             *)
(*   search_granules, search_services   (CMR search, lines 63-155)         *)
(*   request_nsidc_data                 (order, poll, zip, flatten)        *)
(*   request_harmony_data               (job, poll, link downloads)        *)
(* One call of one function is modelled per behaviour; the remote services *)
(* and the file system answer nondeterministically.                        *)
(***************************************************************************)
EXTENDS Integers, Sequences, FiniteSets, TLC

VARIABLES
    fn,            \* the function that was called
    pc,            \* position of the call
    exc,           \* the exception that left the function, or NoExc
    stdout,        \* the kinds of lines printed so far
    status,        \* request_nsidc_data: local `status`
    loop_root,     \* request_nsidc_data: local `loop_root` (Unbound before the first loop poll)
    messagelist,   \* request_nsidc_data: the list handed to pprint at line 206
    polls,         \* request_nsidc_data: status requests issued (saturates at MaxPolls)
    order_zip,     \* the NSIDC service: file paths inside the zip of the order
    zipRequested,  \* request_nsidc_data: the zip URL was requested (line 212)
    archive,       \* request_nsidc_data: file paths of the zip that was extracted
    outputs,       \* request_nsidc_data: the Outputs directory tree
    job_links,     \* the Harmony service: the `links` array it reports for the job
    job_json,      \* request_harmony_data: local `job_json`
    written,       \* request_harmony_data: files opened for writing, in order
    response       \* search_*: local `response` (Unbound when the request raised)

vars == <<fn, pc, exc, stdout, status, loop_root, messagelist, polls,
          order_zip, zipRequested, archive, outputs, job_links, job_json, written, response>>

nsidcVars   == <<status, loop_root, messagelist, polls, order_zip, zipRequested,
                 archive, outputs>>
harmonyVars == <<job_links, job_json, written>>

----------------------------------------------------------------------------
(* Bounds of the model *)

MaxPolls == 2   \* the status-request counter saturates here
MaxDepth == 2   \* deepest file path inside a zip
MaxLinks == 2   \* longest `links` list of a Harmony job

----------------------------------------------------------------------------
(* Python values *)

Unbound == [bound |-> FALSE]
Unset   == "<unset>"
NoExc   == [type |-> "none", line |-> 0, context |-> "none"]

Raise(t, l, c) == [type |-> t, line |-> l, context |-> c]

\* names bound in the module's global namespace (imports, lines 6-25, and defs)
ModuleNames ==
    {"netrc", "system", "getpass", "request", "CookieJar", "join", "expanduser",
     "requests", "pprint", "json", "os", "ET", "shutil", "time", "zipfile", "io",
     "h5py", "Path", "pd", "np", "TOKEN_DATA",
     "setup_cmr_token_auth", "setup_earthdata_login_auth", "search_granules",
     "search_services", "request_nsidc_data", "request_harmony_data",
     "load_icesat2_as_dataframe"}

\* the builtin exception classes the handlers could name
Builtins == {"Exception", "OSError", "NameError", "IndexError", "KeyError"}

----------------------------------------------------------------------------
(* Exceptions and try/except (lines 90-96, 131-137) *)

\* every exception class raised in the model derives from Exception;
\* an `except C` clause catches an instance of C or of a subclass
IsInstance(t, cls) == cls = t \/ cls = "Exception"

\* the except clauses after the try block of search_granules / search_services:
\* the class named, the name bound by `as`, the names the handler body reads,
\* what the body prints, and the clause's line
ExceptClauses(f) ==
    LET l == IF f = "search_granules" THEN 93 ELSE 134
    IN << [cls |-> "HTTPError", as |-> "http_err", reads |-> {"http_error"},
           prints |-> "HTTP Error", line |-> l],
          [cls |-> "Exception", as |-> "err", reads |-> {"err"},
           prints |-> "Error", line |-> l + 2] >>

\* Python evaluates the clauses in order; the class expression of a clause is
\* looked up when the clause is reached, and a name that is not bound raises
\* NameError in place of the exception being handled
RECURSIVE Handle(_, _)
Handle(e, clauses) ==
    IF clauses = <<>>
    THEN [exc |-> e, out |-> {}]
    ELSE LET c == Head(clauses)
         IN IF c.cls \notin (ModuleNames \cup Builtins)
            THEN [exc |-> Raise("NameError", c.line, e.type), out |-> {}]
            ELSE IF IsInstance(e.type, c.cls)
                 THEN IF c.reads \subseteq ({c.as} \cup ModuleNames \cup Builtins)
                      THEN [exc |-> NoExc, out |-> {c.prints}]
                      ELSE [exc |-> Raise("NameError", c.line + 1, e.type), out |-> {}]
                 ELSE Handle(e, Tail(clauses))

----------------------------------------------------------------------------
(* search_granules (63-109) and search_services (111-155) *)

SearchFns == {"search_granules", "search_services"}

\* what requests.post and raise_for_status can do
PostOutcomes == {"ConnectionError", "non2xx", "ok"}
HitCounts    == {0, 2}

\* the exception raised inside the try block, if any (lines 91-92 / 132-133)
TryBlock(f, outcome) ==
    LET l == IF f = "search_granules" THEN 91 ELSE 132
    IN CASE outcome = "ConnectionError" -> Raise("ConnectionError", l, "none")
         [] outcome = "non2xx"          -> Raise("HTTPError", l + 1, "none")
         [] OTHER                       -> NoExc

\* the whole call: try block, except clauses, then the CMR-Hits branch
Search(f) ==
    /\ fn = f
    /\ pc = "start"
    /\ \E outcome \in PostOutcomes, hits \in HitCounts :
         LET raised == TryBlock(f, outcome)
             h      == IF raised = NoExc THEN [exc |-> NoExc, out |-> {}]
                       ELSE Handle(raised, ExceptClauses(f))
             resp   == IF outcome = "ConnectionError" THEN Unbound
                       ELSE [bound |-> TRUE, ok |-> outcome = "ok", hits |-> hits]
             l98    == IF f = "search_granules" THEN 98 ELSE 139
         IN /\ response' = resp
            /\ IF h.exc # NoExc
               THEN /\ exc' = h.exc
                    /\ pc' = "raised"
                    /\ stdout' = stdout \cup h.out
               ELSE IF ~resp.bound
               THEN /\ exc' = Raise("UnboundLocalError", l98, "none")
                    /\ pc' = "raised"
                    /\ stdout' = stdout \cup h.out
               ELSE /\ exc' = NoExc
                    /\ pc' = "done"
                    /\ stdout' = stdout \cup h.out \cup
                                 {IF resp.hits > 0 THEN "Found files" ELSE "Found no hits"}
    /\ UNCHANGED <<fn, nsidcVars, harmonyVars>>

search_granules == Search("search_granules")
search_services == Search("search_services")

----------------------------------------------------------------------------
(* request_nsidc_data (158-227): the Outputs directory *)

Names == {"a", "b"}

\* relative paths below Outputs, as sequences of names
RECURSIVE PathsUpTo(_)
PathsUpTo(n) ==
    IF n = 0 THEN {<<>>}
    ELSE LET shorter == PathsUpTo(n - 1)
         IN shorter \cup {Append(p, x) : p \in shorter, x \in Names}

FilePaths == PathsUpTo(MaxDepth) \ {<<>>}

IsPrefix(p, q)       == Len(p) <= Len(q) /\ SubSeq(q, 1, Len(p)) = p
IsProperPrefix(p, q) == Len(p) < Len(q) /\ IsPrefix(p, q)

\* the file lists a zip can hold: no entry lies below another entry
Zips == {z \in SUBSET FilePaths :
            \A p \in z, q \in z : ~IsProperPrefix(p, q)}

EmptyDir == [exists |-> TRUE, dirs |-> {}, files |-> {}]

\* lines 168-170
MkOutputs(fs) == IF fs.exists THEN fs ELSE EmptyDir

\* z.extractall(path), line 214: every entry is written below path, with the
\* directories leading to it; a file keeps the entry it came from as its id
ExtractAll(fs, z) ==
    [fs EXCEPT !.dirs  = @ \cup {d \in FilePaths : \E p \in z : IsProperPrefix(d, p)},
               !.files = {f \in @ : f.at \notin z} \cup {[at |-> p, id |-> p] : p \in z}]

Exists(fs, p) == p \in fs.dirs \/ \E f \in fs.files : f.at = p

\* shutil.move(os.path.join(root, file), path) inside try/except OSError, lines
\* 221-224: path is a directory, so the target is path/file; shutil.Error (an
\* OSError) is raised when the target exists and is swallowed
Move(fs, src) ==
    LET real_dst == <<src[Len(src)]>>
    IN IF Exists(fs, real_dst)
       THEN fs
       ELSE [fs EXCEPT !.files = {IF f.at = src THEN [f EXCEPT !.at = real_dst] ELSE f
                                  : f \in @}]

\* the `for file in files` loop of one os.walk entry
RECURSIVE MoveAll(_, _, _)
MoveAll(fs, root, files) ==
    IF files = {} THEN fs
    ELSE LET file == CHOOSE n \in files : TRUE
         IN MoveAll(Move(fs, Append(root, file)), root, files \ {file})

NotEmpty(fs, d) ==
    \/ \E f \in fs.files : IsProperPrefix(d, f.at)
    \/ \E e \in fs.dirs : IsProperPrefix(d, e)

\* the `for name in dirs` loop of one os.walk entry, lines 225-226: os.rmdir
\* raises OSError on a directory that is not empty, and nothing catches it
RECURSIVE RmDirs(_, _, _)
RmDirs(fs, root, dirs) ==
    IF dirs = <<>> THEN fs
    ELSE LET d == Append(root, Head(dirs))
         IN IF NotEmpty(fs, d)
            THEN [fs EXCEPT !.err = TRUE]
            ELSE RmDirs([fs EXCEPT !.dirs = @ \ {d}], root, Tail(dirs))

\* os.walk(path, topdown=False), line 219: a directory is listed when the walk
\* enters it, its subdirectories are walked in listing order, and its entry
\* (root, dirs, files) is handed to the loop body after them.  `order` is the
\* order in which os.scandir lists names.
RECURSIVE Walk(_, _, _)
RECURSIVE WalkEach(_, _, _, _)
Walk(fs, root, order) ==
    LET dirs  == SelectSeq(order, LAMBDA n : Append(root, n) \in fs.dirs)
        files == {n \in Names : \E f \in fs.files : f.at = Append(root, n)}
        below == WalkEach(fs, root, dirs, order)
    IN IF below.err THEN below
       ELSE RmDirs(MoveAll(below, root, files), root, dirs)

WalkEach(fs, root, dirs, order) ==
    IF dirs = <<>> THEN fs
    ELSE LET r == Walk(fs, Append(root, Head(dirs)), order)
         IN IF r.err THEN r ELSE WalkEach(r, root, Tail(dirs), order)

ScandirOrders == {o \in [1..Cardinality(Names) -> Names] :
                     \A i, j \in DOMAIN o : i # j => o[i] # o[j]}

\* lines 219-226 as a whole
Flatten(fs, order) ==
    Walk([exists |-> fs.exists, dirs |-> fs.dirs, files |-> fs.files, err |-> FALSE],
         <<>>, order)

----------------------------------------------------------------------------
(* request_nsidc_data (158-227): order, status polls, download *)

Statuses == {"pending", "processing", "complete", "complete_with_errors",
             "failed", "cancelled"}

Min(a, b) == IF a < b THEN a ELSE b

\* what a status request can bring back: a transport error, or an XML body with
\* the texts found under ./requestStatus/ and ./processInfo/
StatusReplies ==
    {[kind |-> "URLError"]} \cup
    {[kind |-> "xml", requestStatus |-> rs, processInfo |-> pi] :
        rs \in {<<>>} \cup {<<t>> : t \in Statuses},
        pi \in {<<>>, <<"msg">>}}

\* what the zip request can bring back
ZipReplies(z) ==
    {[kind |-> "URLError"], [kind |-> "BadZipFile"], [kind |-> "zip", entries |-> z]}

\* mutants of the loop condition: `processing` forgotten; `and` written for `or`
NsidcLoopCond_PendingOnly(st) == st = "pending"
NsidcLoopCond_And(st)         == st = "pending" /\ st = "processing"

\* the condition of the while loop, line 189
NsidcLoopCond(st) == st = "pending" \/ st = "processing"

\* the condition of line 200
NsidcErrorCond(st) == st = "complete_with_errors" \/ st = "failed"

\* the condition of line 207
NsidcDownloadCond(st) == st = "complete" \/ st = "complete_with_errors"

NsidcRaise(t, l) ==
    /\ exc' = Raise(t, l, "none")
    /\ pc' = "raised"

\* lines 168-188: output folder, order submission, first status request
NsidcSubmit ==
    /\ fn = "request_nsidc_data"
    /\ pc = "start"
    /\ outputs' = MkOutputs(outputs)
    /\ \E sub \in {"URLError", "no order", "ok"}, r \in StatusReplies :
         IF sub = "URLError"
         THEN NsidcRaise("URLError", 175) /\ UNCHANGED <<status, polls, stdout>>
         ELSE IF sub = "no order"
         THEN NsidcRaise("IndexError", 180) /\ UNCHANGED <<status, polls, stdout>>
         ELSE /\ polls' = 1
              /\ stdout' = stdout \cup {"Order status URL"}
              /\ IF r.kind = "URLError"
                 THEN NsidcRaise("URLError", 183) /\ UNCHANGED status
                 ELSE IF r.requestStatus = <<>>
                 THEN NsidcRaise("IndexError", 188) /\ UNCHANGED status
                 ELSE /\ status' = r.requestStatus[1]
                      /\ pc' = "loop"
                      /\ exc' = NoExc
    /\ UNCHANGED <<fn, loop_root, messagelist, order_zip, zipRequested, archive,
                   harmonyVars, response>>

\* lines 189-191: the loop condition holds, print and sleep
NsidcSleep ==
    /\ fn = "request_nsidc_data"
    /\ pc = "loop"
    /\ NsidcLoopCond(status)
    /\ pc' = "polling"
    /\ stdout' = stdout \cup {"Trying again."}
    /\ UNCHANGED <<fn, exc, nsidcVars, harmonyVars, response>>

\* lines 192-199: one status request inside the loop
NsidcPoll ==
    /\ fn = "request_nsidc_data"
    /\ pc = "polling"
    /\ polls' = Min(polls + 1, MaxPolls)
    /\ \E r \in StatusReplies :
         IF r.kind = "URLError"
         THEN NsidcRaise("URLError", 192) /\ UNCHANGED <<status, loop_root>>
         ELSE /\ loop_root' = [bound |-> TRUE, processInfo |-> r.processInfo]
              /\ IF r.requestStatus = <<>>
                 THEN NsidcRaise("IndexError", 197) /\ UNCHANGED status
                 ELSE /\ status' = r.requestStatus[1]
                      /\ pc' = "loop"
                      /\ exc' = NoExc
    /\ UNCHANGED <<fn, stdout, messagelist, order_zip, zipRequested, archive, outputs,
                   harmonyVars, response>>

\* lines 200-211 and 216: the loop condition fails; diagnostics, then the
\* branch on the final status
NsidcReport ==
    /\ fn = "request_nsidc_data"
    /\ pc = "loop"
    /\ ~NsidcLoopCond(status)
    /\ IF NsidcErrorCond(status) /\ ~loop_root.bound
       THEN /\ NsidcRaise("UnboundLocalError", 202)
            /\ UNCHANGED <<stdout, messagelist>>
       ELSE /\ exc' = NoExc
            /\ messagelist' = IF NsidcErrorCond(status) THEN loop_root.processInfo
                              ELSE messagelist
            /\ pc' = IF NsidcDownloadCond(status) THEN "download" ELSE "flatten"
            /\ stdout' = stdout
                         \cup (IF NsidcErrorCond(status) THEN {"error messages:"} ELSE {})
                         \cup (IF NsidcDownloadCond(status)
                               THEN {"Beginning download of zipped output..."}
                               ELSE {"Request failed."})
    /\ UNCHANGED <<fn, status, loop_root, polls, order_zip, zipRequested, archive,
                   outputs, harmonyVars, response>>

\* lines 212-215: request the zip and extract it into Outputs
NsidcDownload ==
    /\ fn = "request_nsidc_data"
    /\ pc = "download"
    /\ zipRequested' = TRUE
    /\ \E r \in ZipReplies(order_zip) :
         IF r.kind = "zip"
         THEN /\ outputs' = ExtractAll(outputs, r.entries)
              /\ archive' = r.entries
              /\ stdout' = stdout \cup {"Download is complete."}
              /\ pc' = "flatten"
              /\ exc' = NoExc
         ELSE /\ NsidcRaise(r.kind, IF r.kind = "URLError" THEN 212 ELSE 213)
              /\ UNCHANGED <<outputs, archive, stdout>>
    /\ UNCHANGED <<fn, status, loop_root, messagelist, polls, order_zip, harmonyVars,
                   response>>

\* lines 219-227: the clean-up pass over Outputs, then return
NsidcFlatten ==
    /\ fn = "request_nsidc_data"
    /\ pc = "flatten"
    /\ \E order \in ScandirOrders :
         LET r == Flatten(outputs, order)
         IN /\ outputs' = [exists |-> r.exists, dirs |-> r.dirs, files |-> r.files]
            /\ IF r.err THEN NsidcRaise("OSError", 226)
               ELSE pc' = "done" /\ exc' = NoExc
    /\ UNCHANGED <<fn, stdout, status, loop_root, messagelist, polls, order_zip,
                   zipRequested, archive, harmonyVars, response>>

request_nsidc_data ==
    \/ NsidcSubmit
    \/ NsidcSleep
    \/ NsidcPoll
    \/ NsidcReport
    \/ NsidcDownload
    \/ NsidcFlatten

----------------------------------------------------------------------------
(* request_harmony_data (232-301) *)

Missing == "<missing>"     \* a key the JSON object does not have

JobStatuses == {"running", "successful", "failed"}
Progresses  == {0, 40, 100, 101}
Rels        == {"data", "metadata"}

\* hrefs, as strings of characters
Hrefs == { <<"a">>,
           <<"h", "/", "a">>,
           <<"h", "/", "b">>,
           <<"h", "/", "d", "/", "a">>,
           <<"h", "/">> }

\* a link object: `rel` may be absent
Links == {[href |-> h, rel |-> r] : h \in Hrefs, r \in Rels}
         \cup {[href |-> h] : h \in Hrefs}

LinkLists == UNION {[1..n -> Links] : n \in 0..MaxLinks}

\* dict.get(key, default)
Get(d, key, default) == IF key \in DOMAIN d THEN d[key] ELSE default

\* mutant of the link filter: link['rel'] has to be there
DataLinks_RelRequired(links) ==
    SelectSeq(links, LAMBDA link : Get(link, "rel", "") = "data")

\* line 292: [link for link in job_json['links'] if link.get('rel', 'data') == 'data']
DataLinks(links) == SelectSeq(links, LAMBDA link : Get(link, "rel", "data") = "data")

\* line 296: href.split('/')[-1], the characters after the last '/'
RECURSIVE Filepath(_)
Filepath(href) ==
    IF href = <<>> THEN <<>>
    ELSE IF href[Len(href)] = "/" THEN <<>>
    ELSE Append(Filepath(SubSeq(href, 1, Len(href) - 1)), href[Len(href)])

\* mutant of the loop condition: the progress test forgotten
HarmonyLoopCond_StatusOnly(j) == j.status = "running"

\* the condition of the while loop, line 281
HarmonyLoopCond(j) == j.status = "running" /\ j.progress < 100

\* mutant of the download condition: `>=` written for `==`
HarmonyDownloadCond_AtLeast(j) == j.progress >= 100

\* the condition of line 290
HarmonyDownloadCond(j) == j.progress = 100

\* what a job request can bring back: a transport error, or a JSON object
JobReplies(links) ==
    {[kind |-> "URLError"]} \cup
    {[kind |-> "json", status |-> st, progress |-> pr, links |-> links] :
        st \in JobStatuses \cup {Missing}, pr \in Progresses}

HarmonyRaise(t, l) ==
    /\ exc' = Raise(t, l, "none")
    /\ pc' = "raised"

AsJob(r) == [status |-> r.status, progress |-> r.progress, links |-> r.links]

\* lines 240-278: collection lookup, job submission, first job request.  Every
\* reply carries the service's link list for the job: the function reads it
\* only after the loop.
HarmonySubmit ==
    /\ fn = "request_harmony_data"
    /\ pc = "start"
    /\ \E sub \in {"URLError", "no jobID", "ok"}, r \in JobReplies(job_links) :
         IF sub = "URLError"
         THEN HarmonyRaise("URLError", 260) /\ UNCHANGED <<job_json, stdout>>
         ELSE IF sub = "no jobID"
         THEN HarmonyRaise("KeyError", 266) /\ UNCHANGED <<job_json, stdout>>
         ELSE IF r.kind = "URLError"
         THEN HarmonyRaise("URLError", 272) /\ UNCHANGED <<job_json, stdout>>
         ELSE /\ job_json' = AsJob(r)
              /\ stdout' = stdout \cup {"Job response:"}
              /\ IF r.status = Missing
                 THEN HarmonyRaise("KeyError", 281)
                 ELSE pc' = "loop" /\ exc' = NoExc
    /\ UNCHANGED <<fn, job_links, written, nsidcVars, response>>

\* lines 281-283: the loop condition holds, print and sleep
HarmonySleep ==
    /\ fn = "request_harmony_data"
    /\ pc = "loop"
    /\ HarmonyLoopCond(job_json)
    /\ pc' = "polling"
    /\ stdout' = stdout \cup {"Trying again."}
    /\ UNCHANGED <<fn, exc, harmonyVars, nsidcVars, response>>

\* mutant of the loop body: lines 290-300 indented into the while loop, so
\* that every poll that reports progress 100 writes the data links at once
HarmonyPoll_Indented ==
    /\ fn = "request_harmony_data"
    /\ pc = "polling"
    /\ \E r \in JobReplies(job_links) :
         IF r.kind = "URLError"
         THEN HarmonyRaise("URLError", 284) /\ UNCHANGED <<job_json, written>>
         ELSE /\ job_json' = AsJob(r)
              /\ IF r.status = Missing
                 THEN HarmonyRaise("KeyError", 287) /\ UNCHANGED written
                 ELSE /\ pc' = "loop"
                      /\ exc' = NoExc
                      /\ written' =
                            IF r.progress = 100
                            THEN [i \in 1..Len(DataLinks(r.links)) |->
                                    [name |-> Filepath(DataLinks(r.links)[i].href),
                                     href |-> DataLinks(r.links)[i].href,
                                     body |-> TRUE]]
                            ELSE written
    /\ UNCHANGED <<fn, stdout, job_links, nsidcVars, response>>

\* lines 284-288: one job request inside the loop
HarmonyPoll ==
    /\ fn = "request_harmony_data"
    /\ pc = "polling"
    /\ \E r \in JobReplies(job_links) :
         IF r.kind = "URLError"
         THEN HarmonyRaise("URLError", 284) /\ UNCHANGED job_json
         ELSE /\ job_json' = AsJob(r)
              /\ IF r.status = Missing
                 THEN HarmonyRaise("KeyError", 287)
                 ELSE pc' = "loop" /\ exc' = NoExc
    /\ UNCHANGED <<fn, stdout, job_links, written, nsidcVars, response>>

\* lines 290-291 and 301: the loop condition fails
HarmonyLoopExit ==
    /\ fn = "request_harmony_data"
    /\ pc = "loop"
    /\ ~HarmonyLoopCond(job_json)
    /\ IF HarmonyDownloadCond(job_json)
       THEN /\ pc' = "download"
            /\ stdout' = stdout \cup {"Job progress is 100%."}
       ELSE /\ pc' = "done"
            /\ stdout' = stdout
    /\ UNCHANGED <<fn, exc, harmonyVars, nsidcVars, response>>

\* lines 293-300: one pass of the download loop; the file is opened before the
\* href is requested
HarmonyDownload ==
    /\ fn = "request_harmony_data"
    /\ pc = "download"
    /\ LET links == DataLinks(job_json.links)
           i     == Len(written) + 1
       IN /\ i <= Len(links)
          /\ LET link_dict == links[i]
                 filepath  == Filepath(link_dict.href)
             IN IF filepath = <<>>
                THEN HarmonyRaise("FileNotFoundError", 297) /\ UNCHANGED written
                ELSE \E got \in {"URLError", "body"} :
                       /\ written' = Append(written,
                             [name |-> filepath, href |-> link_dict.href,
                              body |-> got = "body"])
                       /\ IF got = "URLError"
                          THEN HarmonyRaise("URLError", 298)
                          ELSE UNCHANGED <<pc, exc>>
    /\ UNCHANGED <<fn, stdout, job_links, job_json, nsidcVars, response>>

\* line 301, after the last link
HarmonyReturn ==
    /\ fn = "request_harmony_data"
    /\ pc = "download"
    /\ Len(written) = Len(DataLinks(job_json.links))
    /\ pc' = "done"
    /\ UNCHANGED <<fn, exc, stdout, harmonyVars, nsidcVars, response>>

request_harmony_data ==
    \/ HarmonySubmit
    \/ HarmonySleep
    \/ HarmonyPoll
    \/ HarmonyLoopExit
    \/ HarmonyDownload
    \/ HarmonyReturn

----------------------------------------------------------------------------
(* One call of one of the four functions *)

Functions == SearchFns \cup {"request_nsidc_data", "request_harmony_data"}

Init ==
    /\ fn \in Functions
    /\ pc = "start"
    /\ exc = NoExc
    /\ stdout = {}
    /\ status = Unset
    /\ loop_root = Unbound
    /\ messagelist = <<>>
    /\ polls = 0
    /\ order_zip \in (IF fn = "request_nsidc_data" THEN Zips ELSE {{}})
    /\ zipRequested = FALSE
    /\ archive = {}
    /\ outputs \in {[exists |-> FALSE, dirs |-> {}, files |-> {}], EmptyDir}
    /\ job_links \in (IF fn = "request_harmony_data" THEN LinkLists ELSE {<<>>})
    /\ job_json = [status |-> Missing, progress |-> 0, links |-> <<>>]
    /\ written = <<>>
    /\ response = Unbound

Next ==
    \/ search_granules
    \/ search_services
    \/ request_nsidc_data
    \/ request_harmony_data

Spec == Init /\ [][Next]_vars

\* Termination does not depend on what is delivered, only on the statuses
\* polled: the specification for liveness draws the delivered zip and link
\* list from the small ones.  The interpreter keeps executing the call: a
\* step that can be taken is taken.
FairInit ==
    /\ Init
    /\ Cardinality(order_zip) <= 2
    /\ \A p \in order_zip : Len(p) <= 2
    /\ Len(job_links) <= 1

FairSpec == FairInit /\ [][Next]_vars /\ WF_vars(Next)

----------------------------------------------------------------------------
(* Vocabulary of the properties *)

Nsidc   == fn = "request_nsidc_data"
Harmony == fn = "request_harmony_data"

\* the latest status the client has read is a non-terminal one
NsidcNonTerminal   == status \in {"pending", "processing"}
HarmonyNonTerminal == job_json.status = "running" /\ job_json.progress < 100

\* the call is past its polling loop by falling out of the while statement
NsidcPastLoop ==
    pc \in {"download", "flatten", "done"} \/ (pc = "raised" /\ exc.line >= 200)
HarmonyPastLoop ==
    pc \in {"download", "done"} \/ (pc = "raised" /\ exc.line >= 290)

\* the call was ended by an exception raised by a poll inside the loop
NsidcPollFailed   == pc = "raised" /\ exc.line \in {192, 197}
HarmonyPollFailed == pc = "raised" /\ exc.line \in {284, 287}

\* the links a job with progress 100 is to deliver: rel "data", or no rel
HasDataRel(link) == "rel" \notin DOMAIN link \/ link.rel = "data"
WantedLinks      == SelectSeq(job_json.links, HasDataRel)

\* name is what follows the last '/' of href
IsFinalSegment(name, href) ==
    /\ Len(name) <= Len(href)
    /\ \A i \in 1..Len(name) : name[i] # "/" /\ name[i] = href[Len(href) - Len(name) + i]
    /\ Len(name) < Len(href) => href[Len(href) - Len(name)] = "/"

----------------------------------------------------------------------------
(* C1 -- request_nsidc_data: whenever the status read is complete_with_errors
   or failed, by the first status check or by a poll of the loop, the
   processInfo messages of the latest status response are collected and
   printed and the call goes on without raising. *)
C1_DiagnosticsPrintedNoRaise ==
    (Nsidc /\ status \in {"complete_with_errors", "failed"}
           /\ pc \in {"download", "flatten", "done", "raised"})
        => /\ "error messages:" \in stdout
           /\ exc.line # 202

(* C2 -- request_nsidc_data: for every set of N files in the zip, at any depth
   and with any names, once the zip is extracted and the clean-up pass is over
   the call has returned, exactly those N files lie directly in Outputs and no
   subdirectory is left. *)
C2_FlatAfterExtraction ==
    (Nsidc /\ "Download is complete." \in stdout /\ pc \in {"done", "raised"})
        => /\ pc = "done"
           /\ outputs.dirs = {}
           /\ \A f \in outputs.files : Len(f.at) = 1
           /\ {f.id : f \in outputs.files} = archive
           /\ Cardinality(outputs.files) = Cardinality(archive)

(* C3 -- NSIDC polling loop: while the latest status is pending or processing
   the client goes on to another status request; at the first status among
   complete, complete_with_errors, failed the loop is left with that status;
   after a terminal status no status request is issued and the local status
   does not change. *)
C3_PollUntilTerminal ==
    [][Nsidc =>
        /\ (pc = "loop" /\ status \in {"pending", "processing"}) => pc' = "polling"
        /\ pc = "polling" =>
              /\ status \in {"pending", "processing"}
              /\ polls' = Min(polls + 1, MaxPolls)
        /\ (pc = "loop" /\ status \in {"complete", "complete_with_errors", "failed"})
              => pc' \notin {"loop", "polling"}
        /\ status \in {"complete", "complete_with_errors", "failed"}
              => status' = status /\ polls' = polls /\ pc' # "polling"
      ]_vars

C3_Witness ==
    /\ Nsidc
    /\ pc = "flatten"
    /\ status = "failed"
    /\ loop_root.bound
    /\ polls >= 2

(* C4 -- both backends: nothing is downloaded or written while the latest
   status is non-terminal; every download or write comes after the polling
   loop was left, so a call whose polls all say "still processing" leaves no
   result file. *)
C4_NoResultBeforeLoopExit ==
    /\ Nsidc =>
          ((zipRequested \/ archive # {} \/ outputs.files # {})
              => NsidcPastLoop /\ ~NsidcNonTerminal)
    /\ Harmony =>
          (written # <<>> => HarmonyPastLoop /\ ~HarmonyNonTerminal)

C4_Witness ==
    /\ Harmony
    /\ pc = "polling"
    /\ "Trying again." \in stdout
    /\ job_json.links # <<>>
    /\ written = <<>>

(* C5 -- request_harmony_data: for every links list of a job with progress
   100 the links downloaded are, in list order, the links whose rel is "data"
   and the links without rel, no other link is downloaded, and every download
   goes to the file named by the last '/'-separated segment of its href. *)
C5_DataLinksDownloaded ==
    Harmony =>
        /\ Len(written) <= Len(WantedLinks)
        /\ \A i \in 1..Len(written) :
              /\ written[i].href = WantedLinks[i].href
              /\ IsFinalSegment(written[i].name, written[i].href)
        /\ (pc = "done" /\ job_json.progress = 100) => Len(written) = Len(WantedLinks)

C5_Witness ==
    /\ Harmony
    /\ pc = "done"
    /\ Len(job_json.links) = 2
    /\ "rel" \in DOMAIN job_json.links[1] /\ job_json.links[1].rel = "metadata"
    /\ "rel" \notin DOMAIN job_json.links[2]
    /\ Len(written) = 1
    /\ written[1].href = <<"h", "/", "d", "/", "a">>
    /\ written[1].name = <<"a">>

(* C6 -- a failed poll (a transport error, or a response with no readable
   status) never ends the polling loop of request_nsidc_data or
   request_harmony_data: the loop is left only once a terminal status has
   been read. *)
C6_PollFailureKeepsLooping ==
    /\ Nsidc   => ~NsidcPollFailed
    /\ Harmony => ~HarmonyPollFailed

(* C6, amended -- the loop is left by falling out of the while statement only
   once a terminal status has been read; a failed poll is not caught, its
   exception ends the loop and the call while the last status read is still
   non-terminal (or unreadable), and nothing has been downloaded. *)
C6_LoopLeftByTerminalOrRaise ==
    /\ Nsidc =>
          /\ NsidcPastLoop => ~NsidcNonTerminal /\ status # Unset
          /\ NsidcPollFailed => NsidcNonTerminal /\ ~zipRequested /\ archive = {}
    /\ Harmony =>
          /\ HarmonyPastLoop => ~HarmonyNonTerminal /\ job_json.status # Missing
          /\ HarmonyPollFailed =>
                /\ HarmonyNonTerminal \/ job_json.status = Missing
                /\ written = <<>>

C6_Witness ==
    /\ Nsidc
    /\ pc = "raised"
    /\ exc.line = 197
    /\ loop_root.bound
    /\ status = "processing"

(* C7 -- search_granules and search_services: when the HTTP request fails
   (the request raises, or raise_for_status reports a non-2xx status) a
   message is printed, no exception leaves the try/except block, and the call
   goes on to the statement that reads the CMR-Hits header. *)
C7_FailurePrintedAndSwallowed ==
    (fn \in SearchFns /\ pc # "start" /\ (~response.bound \/ ~response.ok))
        => /\ stdout \cap {"HTTP Error", "Error"} # {}
           /\ exc = NoExc \/ exc.line \in {98, 139}

(* C8 -- the polling loops have no retry bound: when every poll reports a
   non-terminal status the client polls again and again and never returns;
   when a terminal status is reported the loop is left and the call ends. *)
C8_StillProcessing ==
    /\ Nsidc \/ Harmony
    /\ pc # "raised"
    /\ pc # "start" => IF Nsidc THEN NsidcNonTerminal ELSE HarmonyNonTerminal

C8_TerminalRead ==
    /\ Nsidc \/ Harmony
    /\ pc = "loop"
    /\ IF Nsidc THEN ~NsidcNonTerminal ELSE ~HarmonyNonTerminal

\* as long as no poll has failed and no terminal status was read the client is
\* about to poll again and again, and it has not returned; from a terminal
\* status read at the loop test the call comes to its end
C8_UnboundedPolling ==
    /\ []<>(~C8_StillProcessing \/ pc = "polling")
    /\ [](C8_StillProcessing => pc # "done")
    /\ C8_TerminalRead ~> (pc \in {"done", "raised"})

C8_Witness ==
    /\ Nsidc
    /\ pc = "done"
    /\ polls = MaxPolls
    /\ "Trying again." \in stdout

(* C9 -- request_nsidc_data: the zip is requested exactly when the final
   status is complete or complete_with_errors; with complete_with_errors the
   diagnostics are printed and the zip is still requested; with failed or any
   other final status no zip is requested or extracted and the clean-up pass
   still runs. *)
C9_DownloadIffCompleteOrErrors ==
    (Nsidc /\ pc \in {"done", "raised"} /\ status # Unset /\ ~NsidcNonTerminal)
        => /\ zipRequested <=> status \in {"complete", "complete_with_errors"}
           /\ status = "complete_with_errors" => "error messages:" \in stdout
           /\ status \notin {"complete", "complete_with_errors"}
                 => /\ archive = {}
                    /\ pc = "done" \/ exc.line = 226

(* C10 -- request_harmony_data: the loop is left as soon as the latest
   snapshot has a status other than running or progress >= 100; links are
   downloaded exactly when that snapshot has progress 100, whatever its
   status; with progress other than 100 nothing is downloaded and the call
   returns normally. *)
C10_ExitAndDownloadOnProgress ==
    [][Harmony =>
        /\ (pc = "loop" /\ (job_json.status # "running" \/ job_json.progress >= 100))
              => /\ pc' = IF job_json.progress = 100 THEN "download" ELSE "done"
                 /\ exc' = NoExc
                 /\ job_json' = job_json
        /\ pc' = "download" => job_json'.progress = 100
        /\ written' # written => job_json.progress = 100 /\ pc = "download"
        /\ (pc = "download" /\ pc' = "done") => Len(written) = Len(WantedLinks)
      ]_vars

C10_Witness ==
    /\ Harmony
    /\ pc = "done"
    /\ job_json.status = "running"
    /\ job_json.progress = 100
    /\ Len(written) = 2

====
